---- MODULE Spec2Model ----
(***************************************************************************)
(* Model of spriteutil.py: dominant colour detection, the Sprite class,    *)
(* two-pass connected-component labelling (find_label / update_label),     *)
(* bounding boxes and the label map built by find_sprites.                 *)
(*                                                                         *)
(* A Python dict is a sequence of [key, val] records in insertion order;   *)
(* a Python list is a sequence; a coordinate (x, y) is the tuple <<x, y>>. *)
(* The set objects of equivalence_list are shared by reference with        *)
(* equivalence_dict, so equivalence_dict holds the index of the set object *)
(* it refers to until line 172 replaces the reference by a number.         *)
(***************************************************************************)
EXTENDS Integers, Sequences, FiniteSets, TLC

\* ---- bounds of the explored inputs ----
\* find_sprites on every image of at most MaxW x MaxH pixels with at most
\* MaxFg black pixels
MaxW == 3
MaxH == 3
MaxFg == 4
\* find_sprites on the ChainW x ChainH images with at most ChainFg black pixels
ChainW == 5
ChainH == 3
ChainFg == 5
\* Sprite(...) on arguments in -1..MaxArg
MaxArg == 2

None == "None"
Colors == {"black", "white"}

VARIABLES
    width, height, image,   \* the image object: image[<<x, y>>] is getpixel((x, y))
    background_arg,         \* the background_color argument of find_sprites
    background_color,       \* the local background_color after lines 247-248
    colors_list,            \* what image.getcolors returned (line 23)
    pc,                     \* position in find_sprites / create_labelled_dict / update_label
    scanned,                \* number of pixels the Pass 1 loops have visited
    labelled_dict,          \* {label: [pixels]}
    equivalence_list,       \* [set(equivalence)]
    equivalence_dict,       \* label -> reference into equivalence_list, then -> min
    todo,                   \* keys still to be visited by the running for-loop
    sprites,                \* {label: Sprite}
    label_map,              \* label_map[y][x], rows and columns counted from 1
    sprite_args,            \* arguments of a direct Sprite(...) call
    sprite_obj,             \* the object that call leaves behind
    provisional,            \* history: labelled_dict as Pass 1 left it
    recorded                \* history: equivalence_list as Pass 1 left it

vars == <<width, height, image, background_arg, background_color, colors_list, pc,
          scanned, labelled_dict, equivalence_list, equivalence_dict, todo,
          sprites, label_map, sprite_args, sprite_obj, provisional, recorded>>

\* ---- Python builtins ----
Min(S) == CHOOSE m \in S : \A n \in S : m <= n
Max(S) == CHOOSE m \in S : \A n \in S : m >= n
Range(s) == {s[i] : i \in DOMAIN s}

\* ---- dict operations ----
Keys(d) == {d[i].key : i \in DOMAIN d}
KeyList(d) == [i \in DOMAIN d |-> d[i].key]
Get(d, k) == d[CHOOSE i \in DOMAIN d : d[i].key = k].val
Put(d, k, v) ==
    IF k \in Keys(d)
    THEN [i \in DOMAIN d |-> IF d[i].key = k THEN [key |-> k, val |-> v] ELSE d[i]]
    ELSE Append(d, [key |-> k, val |-> v])
\* line 179 left out: the merged entry stays in the dict
Del_forgotten(d, k) == d
Del(d, k) == SelectSeq(d, LAMBDA e : e.key # k)

\* ---- the image ----
Coords(w, h) == {<<x, y>> : x \in 0..(w - 1), y \in 0..(h - 1)}
PixelAt(i) == <<i % width, i \div width>>
Foreground == {p \in Coords(width, height) : image[p] # background_color}

\* ---- find_most_common_color ----
Count(c) == Cardinality({p \in Coords(width, height) : image[p] = c})
\* every list image.getcolors may deliver: one (count, pixel) entry per colour
\* present, in an order the caller does not control
GetColors ==
    LET present == {c \in Colors : Count(c) > 0}
        n == Cardinality(present)
    IN {[i \in 1..n |-> <<Count(f[i]), f[i]>>] :
            f \in {g \in [1..n -> present] : \A i, j \in 1..n : i # j => g[i] # g[j]}}
\* the last entry of maximal count instead of the first
find_most_common_color_last(cl) ==
    LET best == Max({cl[i][1] : i \in DOMAIN cl})
        last == Max({i \in DOMAIN cl : cl[i][1] = best})
    IN cl[last][2]
\* max(colors_list, key=lambda tup:tup[0])[1]: the first entry of maximal count
find_most_common_color(cl) ==
    LET best == Max({cl[i][1] : i \in DOMAIN cl})
        first == Min({i \in DOMAIN cl : cl[i][1] = best})
    IN cl[first][2]

\* ---- Sprite ----
\* x1 < x2 and y1 < y2 in place of <=: one-pixel-wide sprites rejected
SpriteInit_strict(label, x1, y1, x2, y2) ==
    IF label >= 0 /\ x1 >= 0 /\ y1 >= 0 /\ x2 >= 0 /\ y2 >= 0 /\ x1 < x2 /\ y1 < y2
    THEN [raised |-> FALSE,
          attrs |-> {"label", "top_left", "bottom_right", "width", "height"},
          label |-> label, top_left |-> <<x1, y1>>, bottom_right |-> <<x2, y2>>,
          width |-> x2 - x1 + 1, height |-> y2 - y1 + 1]
    ELSE [raised |-> TRUE, attrs |-> {},
          label |-> 0, top_left |-> <<0, 0>>, bottom_right |-> <<0, 0>>,
          width |-> 0, height |-> 0]

SpriteInit(label, x1, y1, x2, y2) ==
    IF label >= 0 /\ x1 >= 0 /\ y1 >= 0 /\ x2 >= 0 /\ y2 >= 0 /\ x1 <= x2 /\ y1 <= y2
    THEN [raised |-> FALSE,
          attrs |-> {"label", "top_left", "bottom_right", "width", "height"},
          label |-> label, top_left |-> <<x1, y1>>, bottom_right |-> <<x2, y2>>,
          width |-> x2 - x1 + 1, height |-> y2 - y1 + 1]
    ELSE [raised |-> TRUE, attrs |-> {},
          label |-> 0, top_left |-> <<0, 0>>, bottom_right |-> <<0, 0>>,
          width |-> 0, height |-> 0]

\* ---- Pass 1 ----
\* edge neighbours only (4-connectivity)
directions_4 == {<<0, -1>>, <<-1, 0>>, <<1, 0>>, <<0, 1>>}
directions == {<<-1, -1>>, <<0, -1>>, <<1, -1>>, <<-1, 0>>,
               <<1, 0>>, <<-1, 1>>, <<0, 1>>, <<1, 1>>}

check_neighborhood(pixel_coordinate, ld) ==
    {ld[i].key : i \in {j \in DOMAIN ld :
        \E dir \in directions :
            <<pixel_coordinate[1] + dir[1], pixel_coordinate[2] + dir[2]>> \in Range(ld[j].val)}}

find_label(pixel_coordinate, ld, el) ==
    IF ld = <<>>
    THEN [label |-> 1, equivalence_list |-> el]
    ELSE LET equivalence == check_neighborhood(pixel_coordinate, ld)
         IN IF equivalence # {}
            THEN [label |-> Min(equivalence), equivalence_list |-> Append(el, equivalence)]
            ELSE [label |-> Max(Keys(ld)) + 1, equivalence_list |-> el]

\* ---- Pass 2: update_label ----
\* lines 165-170 for one label: walk equivalence_list from set number i on.
\* ed[label] is a reference to a set object of the list, so update() changes
\* the set every other holder of that reference sees.
RECURSIVE CollectSets(_, _, _, _)
CollectSets(label, el, ed, i) ==
    IF i > Len(el)
    THEN [equivalence_list |-> el, equivalence_dict |-> ed]
    ELSE IF label \in el[i]
         THEN IF label \in DOMAIN ed
              THEN CollectSets(label,
                               [el EXCEPT ![ed[label]] = el[ed[label]] \cup el[i]],
                               ed, i + 1)
              ELSE CollectSets(label, el, (label :> i) @@ ed, i + 1)
         ELSE CollectSets(label, el, ed, i + 1)

\* ---- find_sprites, lines 256-262 ----
\* y2 taken from the x coordinates
BoundingSprite_copied(label, pixels) ==
    LET x1 == Min({pixels[i][1] : i \in DOMAIN pixels})
        x2 == Max({pixels[i][1] : i \in DOMAIN pixels})
        y1 == Min({pixels[i][2] : i \in DOMAIN pixels})
        y2 == Max({pixels[i][1] : i \in DOMAIN pixels})
    IN SpriteInit(label, x1, y1, x2, y2)

BoundingSprite(label, pixels) ==
    LET x1 == Min({pixels[i][1] : i \in DOMAIN pixels})
        x2 == Max({pixels[i][1] : i \in DOMAIN pixels})
        y1 == Min({pixels[i][2] : i \in DOMAIN pixels})
        y2 == Max({pixels[i][2] : i \in DOMAIN pixels})
    IN SpriteInit(label, x1, y1, x2, y2)

\* ---- create_label_map ----
\* lines 233-236: the last dict entry whose list holds the coordinate wins
PixelLabel(ld, pixel_coordinate) ==
    LET holders == {i \in DOMAIN ld : pixel_coordinate \in Range(ld[i].val)}
    IN IF holders = {} THEN 0 ELSE ld[Max(holders)].key

\* x and y swapped in the coordinate looked up
create_label_map_swapped(ld, w, h) ==
    [row \in 1..h |-> [col \in 1..w |-> PixelLabel(ld, <<row - 1, col - 1>>)]]

create_label_map(ld, w, h) ==
    [row \in 1..h |-> [col \in 1..w |-> PixelLabel(ld, <<col - 1, row - 1>>)]]

\* ---- initial states ----
\* the subsets of lo..(n-1) with at most k elements
RECURSIVE SmallSubsets(_, _, _)
SmallSubsets(lo, n, k) ==
    IF k = 0 \/ lo >= n
    THEN {{}}
    ELSE {{}} \cup UNION {{{i} \cup T : T \in SmallSubsets(i + 1, n, k - 1)} : i \in lo..(n - 1)}

NoArgs == [label |-> 0, x1 |-> 0, y1 |-> 0, x2 |-> 0, y2 |-> 0]
NoObject == [raised |-> FALSE, attrs |-> {},
             label |-> 0, top_left |-> <<0, 0>>, bottom_right |-> <<0, 0>>,
             width |-> 0, height |-> 0]

\* find_sprites(image, background_color) is about to run on an image of one of
\* the given sizes with at most fg black pixels
Start(widths, heights, fg) ==
    /\ width \in widths
    /\ height \in heights
    /\ \E ink \in SmallSubsets(0, width * height, fg) :
          image = [p \in Coords(width, height) |->
                      IF p[2] * width + p[1] \in ink THEN "black" ELSE "white"]
    /\ background_arg \in Colors \cup {None}
    /\ background_color = None
    /\ colors_list = <<>>
    /\ pc = "find_sprites"
    /\ scanned = 0
    /\ labelled_dict = <<>>
    /\ equivalence_list = <<>>
    /\ equivalence_dict = <<>>
    /\ todo = <<>>
    /\ sprites = <<>>
    /\ label_map = <<>>
    /\ sprite_args = NoArgs
    /\ sprite_obj = NoObject
    /\ provisional = <<>>
    /\ recorded = <<>>

Init == Start(1..MaxW, 1..MaxH, MaxFg)

\* ---- find_sprites ----
\* line 247, background_color given
GivenBackground ==
    /\ pc = "find_sprites"
    /\ background_arg # None
    /\ background_color' = background_arg
    /\ pc' = "pass1"
    /\ UNCHANGED <<width, height, image, background_arg, colors_list, scanned,
                   labelled_dict, equivalence_list, equivalence_dict, todo,
                   sprites, label_map, sprite_args, sprite_obj, provisional, recorded>>

\* lines 247-248 with lines 23-24
DetectBackground ==
    /\ pc = "find_sprites"
    /\ background_arg = None
    /\ \E cl \in GetColors :
          /\ colors_list' = cl
          /\ background_color' = find_most_common_color(cl)
    /\ pc' = "pass1"
    /\ UNCHANGED <<width, height, image, background_arg, scanned,
                   labelled_dict, equivalence_list, equivalence_dict, todo,
                   sprites, label_map, sprite_args, sprite_obj, provisional, recorded>>

\* lines 190-209: the loops run on to the next pixel that differs from the
\* background (iterations over background pixels only move x and y) and label it
LabelPixel ==
    /\ pc = "pass1"
    /\ \E i \in scanned..(width * height - 1) :
          /\ image[PixelAt(i)] # background_color
          /\ \A j \in scanned..(i - 1) : image[PixelAt(j)] = background_color
          /\ LET pixel_coordinate == PixelAt(i)
                 found == find_label(pixel_coordinate, labelled_dict, equivalence_list)
                 pixel_label == found.label
             IN /\ equivalence_list' = found.equivalence_list
                /\ labelled_dict' =
                      IF pixel_label \in Keys(labelled_dict)
                      THEN Put(labelled_dict, pixel_label,
                               Append(Get(labelled_dict, pixel_label), pixel_coordinate))
                      ELSE Put(labelled_dict, pixel_label, <<pixel_coordinate>>)
          /\ scanned' = i + 1
    /\ UNCHANGED <<width, height, image, background_arg, background_color, colors_list,
                   pc, equivalence_dict, todo, sprites, label_map, sprite_args, sprite_obj,
                   provisional, recorded>>

\* the loops of lines 190-191 end; line 212 calls update_label (line 163)
EndScan ==
    /\ pc = "pass1"
    /\ \A j \in scanned..(width * height - 1) : image[PixelAt(j)] = background_color
    /\ scanned' = width * height
    /\ equivalence_dict' = <<>>
    /\ todo' = KeyList(labelled_dict)
    /\ pc' = "collect"
    /\ provisional' = labelled_dict
    /\ recorded' = equivalence_list
    /\ UNCHANGED <<width, height, image, background_arg, background_color, colors_list,
                   labelled_dict, equivalence_list, sprites, label_map,
                   sprite_args, sprite_obj>>

\* one iteration of the loop of line 164
CollectLabel ==
    /\ pc = "collect"
    /\ todo # <<>>
    /\ LET r == CollectSets(Head(todo), equivalence_list, equivalence_dict, 1)
       IN /\ equivalence_list' = r.equivalence_list
          /\ equivalence_dict' = r.equivalence_dict
    /\ todo' = Tail(todo)
    /\ UNCHANGED <<width, height, image, background_arg, background_color, colors_list,
                   pc, scanned, labelled_dict, sprites, label_map, sprite_args, sprite_obj,
                   provisional, recorded>>

\* lines 171-172, then line 175 takes the copy of labelled_dict
ReduceToMin ==
    /\ pc = "collect"
    /\ todo = <<>>
    /\ equivalence_dict' =
          [key \in DOMAIN equivalence_dict |-> Min(equivalence_list[equivalence_dict[key]])]
    /\ todo' = KeyList(labelled_dict)
    /\ pc' = "merge"
    /\ UNCHANGED <<width, height, image, background_arg, background_color, colors_list,
                   scanned, labelled_dict, equivalence_list, sprites, label_map,
                   sprite_args, sprite_obj, provisional, recorded>>

\* one iteration of the loop of lines 175-179 that finds its keys
MergeLabel ==
    /\ pc = "merge"
    /\ todo # <<>>
    /\ LET label == Head(todo)
       IN /\ label \in DOMAIN equivalence_dict
          /\ LET reduced_label == equivalence_dict[label]
             IN IF reduced_label # label
                THEN /\ reduced_label \in Keys(labelled_dict)
                     /\ labelled_dict' =
                           Del(Put(labelled_dict, reduced_label,
                                   Get(labelled_dict, reduced_label)
                                       \o Get(labelled_dict, label)),
                               label)
                ELSE labelled_dict' = labelled_dict
    /\ todo' = Tail(todo)
    /\ UNCHANGED <<width, height, image, background_arg, background_color, colors_list,
                   pc, scanned, equivalence_list, equivalence_dict, sprites, label_map,
                   sprite_args, sprite_obj, provisional, recorded>>

\* line 176 or line 178 raises KeyError, which leaves find_sprites
MergeKeyError ==
    /\ pc = "merge"
    /\ todo # <<>>
    /\ LET label == Head(todo)
       IN \/ label \notin DOMAIN equivalence_dict
          \/ /\ label \in DOMAIN equivalence_dict
             /\ equivalence_dict[label] # label
             /\ equivalence_dict[label] \notin Keys(labelled_dict)
    /\ pc' = "KeyError"
    /\ UNCHANGED <<width, height, image, background_arg, background_color, colors_list,
                   scanned, labelled_dict, equivalence_list, equivalence_dict, todo,
                   sprites, label_map, sprite_args, sprite_obj, provisional, recorded>>

\* update_label returns (line 180); lines 252-262
BuildSprites ==
    /\ pc = "merge"
    /\ todo = <<>>
    /\ LET built == [label \in Keys(labelled_dict) |->
                        BoundingSprite(label, Get(labelled_dict, label))]
       IN IF \E label \in Keys(labelled_dict) : built[label].raised
          THEN /\ pc' = "ValueError"
               /\ sprites' = sprites
          ELSE /\ pc' = "label_map"
               /\ sprites' = built
    /\ UNCHANGED <<width, height, image, background_arg, background_color, colors_list,
                   scanned, labelled_dict, equivalence_list, equivalence_dict, todo,
                   label_map, sprite_args, sprite_obj, provisional, recorded>>

\* lines 265-267
CreateLabelMap ==
    /\ pc = "label_map"
    /\ label_map' = create_label_map(labelled_dict, width, height)
    /\ pc' = "done"
    /\ UNCHANGED <<width, height, image, background_arg, background_color, colors_list,
                   scanned, labelled_dict, equivalence_list, equivalence_dict, todo,
                   sprites, sprite_args, sprite_obj, provisional, recorded>>

Next ==
    \/ GivenBackground
    \/ DetectBackground
    \/ LabelPixel
    \/ EndScan
    \/ CollectLabel
    \/ ReduceToMin
    \/ MergeLabel
    \/ MergeKeyError
    \/ BuildSprites
    \/ CreateLabelMap

Spec == Init /\ [][Next]_vars

InitChain == Start({ChainW}, {ChainH}, ChainFg)

SpecChain == InitChain /\ [][Next]_vars

\* ---- a direct call of the Sprite constructor ----
InitSprite ==
    /\ width = 1
    /\ height = 1
    /\ image = [p \in Coords(1, 1) |-> "white"]
    /\ background_arg = None
    /\ background_color = None
    /\ colors_list = <<>>
    /\ pc = "Sprite"
    /\ scanned = 0
    /\ labelled_dict = <<>>
    /\ equivalence_list = <<>>
    /\ equivalence_dict = <<>>
    /\ todo = <<>>
    /\ sprites = <<>>
    /\ label_map = <<>>
    /\ sprite_args \in [label : -1..MaxArg, x1 : -1..MaxArg, y1 : -1..MaxArg,
                        x2 : -1..MaxArg, y2 : -1..MaxArg]
    /\ sprite_obj = NoObject
    /\ provisional = <<>>
    /\ recorded = <<>>

ConstructSprite ==
    /\ pc = "Sprite"
    /\ sprite_obj' = SpriteInit(sprite_args.label, sprite_args.x1, sprite_args.y1,
                                sprite_args.x2, sprite_args.y2)
    /\ pc' = "Sprite_done"
    /\ UNCHANGED <<width, height, image, background_arg, background_color, colors_list,
                   scanned, labelled_dict, equivalence_list, equivalence_dict, todo,
                   sprites, label_map, sprite_args, provisional, recorded>>

NextSprite == ConstructSprite

SpecSprite == InitSprite /\ [][NextSprite]_vars

\* ======================================================================
\* Properties
\* ======================================================================

\* ---- vocabulary of the properties ----
Abs(n) == IF n < 0 THEN -n ELSE n
\* 8-adjacency: sharing an edge or a corner
Adjacent(p, q) == p # q /\ Abs(p[1] - q[1]) <= 1 /\ Abs(p[2] - q[2]) <= 1
\* the foreground pixels joined to S by paths of 8-adjacent foreground pixels
RECURSIVE Flood(_)
Flood(S) ==
    LET T == S \cup {q \in Foreground : \E p \in S : Adjacent(p, q)}
    IN IF T = S THEN S ELSE Flood(T)
Region(p) == Flood({p})
\* the keys of labelled_dict whose pixel list holds p
KeysHolding(p) ==
    {labelled_dict[i].key : i \in {j \in DOMAIN labelled_dict : p \in Range(labelled_dict[j].val)}}
\* the pixel lists of a dict, one after the other
RECURSIVE Flatten(_)
Flatten(d) == IF d = <<>> THEN <<>> ELSE Head(d).val \o Flatten(Tail(d))
\* how often p occurs in the sequence s
Occurrences(s, p) == Cardinality({k \in DOMAIN s : s[k] = p})
MapAt(p) == label_map[p[2] + 1][p[1] + 1]
Terminated == pc \in {"done", "KeyError", "ValueError"}
\* the labels Pass 1 handed out and the closure of the equivalence sets it recorded
Labels == Keys(provisional)
RECURSIVE Closure(_)
Closure(S) ==
    LET T == S \cup UNION {e \in Range(recorded) : e \cap S # {}}
    IN IF T = S THEN S ELSE Closure(T)
Class(l) == Closure({l})
FirstAt(c) == Min({i \in 0..(width * height - 1) : image[PixelAt(i)] = c})

\* C1: in the result of find_sprites, two foreground pixels joined by a path
\* of 8-adjacent foreground pixels lie under the same key of the resolved
\* dictionary and carry the same non-zero label in the label map.
C1_ConnectedPixelsShareComponent ==
    pc = "done" =>
        \A p \in Foreground : \A q \in Region(p) :
            /\ KeysHolding(p) = KeysHolding(q)
            /\ MapAt(p) = MapAt(q)
            /\ MapAt(p) # 0

\* C2: create_labelled_dict followed by update_label never raises: no lookup
\* of a label without an entry in equivalence_dict, no merge into a deleted entry.
C2_LabellingNeverRaises == pc # "KeyError"

\* C3: find_sprites returns a result in which foreground pixels not joined by
\* any path belong to different components; the image whose only foreground
\* pixels are (0,0) and (2,2) yields two sprites with distinct labels.
C3_SeparatePixelsSeparateSprites ==
    Terminated =>
        /\ pc = "done" =>
              \A p \in Foreground : \A q \in Foreground \ Region(p) :
                  /\ KeysHolding(p) \cap KeysHolding(q) = {}
                  /\ MapAt(p) # MapAt(q)
        /\ Foreground = {<<0, 0>>, <<2, 2>>} =>
              /\ pc = "done"
              /\ Cardinality(DOMAIN sprites) = 2
              /\ MapAt(<<0, 0>>) # MapAt(<<2, 2>>)

\* C4: when the foreground is exactly two pixels that are immediate
\* 8-neighbours, find_sprites returns exactly one component holding both.
C4_TwoNeighboursOneComponent ==
    Terminated =>
        LET fg == Foreground
        IN (Cardinality(fg) = 2 /\ \E p, q \in fg : Adjacent(p, q)) =>
               /\ pc = "done"
               /\ Len(labelled_dict) = 1
               /\ Range(labelled_dict[1].val) = fg
               /\ DOMAIN sprites = {labelled_dict[1].key}

C4_Witness ==
    /\ pc = "done"
    /\ width >= 2
    /\ height >= 2
    /\ Foreground = {<<0, 0>>, <<1, 1>>}

\* C5: the label map has the image's dimensions, holds 0 exactly at the
\* background pixels, and for every label L the cells holding L are exactly
\* the pixels of component L of the resolved dictionary.
C5_LabelMapMatchesComponents ==
    pc = "done" =>
        LET keys == Keys(labelled_dict)
            cells == Coords(width, height)
        IN /\ Len(label_map) = height
           /\ \A row \in 1..height : Len(label_map[row]) = width
           /\ \A p \in cells :
                 /\ image[p] = background_color => MapAt(p) = 0
                 /\ image[p] # background_color => MapAt(p) \in keys
           /\ \A L \in keys :
                 {p \in cells : MapAt(p) = L} = Range(Get(labelled_dict, L))

\* a label map of a non-square image with two components and some background
C5_Witness ==
    /\ pc = "done"
    /\ Cardinality(Keys(labelled_dict)) >= 2
    /\ width # height
    /\ Foreground # Coords(width, height)

\* C6: every Sprite of the result has its dictionary key as label, its box
\* contains every pixel of the component, and each of the four box edges
\* holds a pixel of the component.
C6_TightBoundingBox ==
    pc = "done" =>
        /\ DOMAIN sprites = Keys(labelled_dict)
        /\ \A k \in Keys(labelled_dict) :
              LET sp == sprites[k]
                  px == Range(Get(labelled_dict, k))
              IN /\ sp.label = k
                 /\ \A c \in px : /\ sp.top_left[1] <= c[1] /\ c[1] <= sp.bottom_right[1]
                                  /\ sp.top_left[2] <= c[2] /\ c[2] <= sp.bottom_right[2]
                 /\ \E c \in px : c[1] = sp.top_left[1]
                 /\ \E c \in px : c[1] = sp.bottom_right[1]
                 /\ \E c \in px : c[2] = sp.top_left[2]
                 /\ \E c \in px : c[2] = sp.bottom_right[2]

\* a sprite at least two pixels wide and high whose box holds a background pixel
C6_Witness ==
    /\ pc = "done"
    /\ \E k \in DOMAIN sprites :
          /\ sprites[k].width >= 2
          /\ sprites[k].height >= 2
          /\ \E p \in Coords(width, height) \ Foreground :
                /\ sprites[k].top_left[1] <= p[1] /\ p[1] <= sprites[k].bottom_right[1]
                /\ sprites[k].top_left[2] <= p[2] /\ p[2] <= sprites[k].bottom_right[2]

\* C7: when find_most_common_color has returned (line 248), its value has the
\* highest count, and among values tied for the highest count it is the one
\* met first in row-major order.
C7_TieBrokenByScanOrder ==
    (pc = "pass1" /\ scanned = 0 /\ colors_list # <<>>) =>
        \A c \in Colors :
            /\ Count(c) <= Count(background_color)
            /\ (c # background_color /\ Count(c) = Count(background_color)) =>
                  FirstAt(background_color) < FirstAt(c)

\* C7 (amended): when find_most_common_color has returned (line 248), its
\* value has the highest count, and among values tied for the highest count
\* it is the one that comes first in the list getcolors delivered.
C7_TieBrokenByListOrder ==
    (pc = "pass1" /\ scanned = 0 /\ colors_list # <<>>) =>
        /\ \A c \in Colors : Count(c) <= Count(background_color)
        /\ \A i, j \in DOMAIN colors_list :
              (colors_list[i][2] = background_color
                   /\ colors_list[j][1] = Count(background_color)) => i <= j

\* two colours tie and the one later in row-major order was returned
C7_Witness ==
    /\ pc = "pass1"
    /\ scanned = 0
    /\ colors_list # <<>>
    /\ \E c \in Colors :
          /\ c # background_color
          /\ Count(c) = Count(background_color)
          /\ FirstAt(c) < FirstAt(background_color)

\* C8: Sprite(label, x1, y1, x2, y2) raises exactly when label < 0, a
\* coordinate is < 0, x1 > x2 or y1 > y2; otherwise every attribute is set,
\* with top_left = (x1, y1), bottom_right = (x2, y2), width = x2 - x1 + 1 >= 1
\* and height = y2 - y1 + 1 >= 1; a raising call sets no attribute.
C8_SpriteValidation ==
    pc = "Sprite_done" =>
        LET a == sprite_args
            invalid == \/ a.label < 0
                       \/ a.x1 < 0 \/ a.y1 < 0 \/ a.x2 < 0 \/ a.y2 < 0
                       \/ a.x1 > a.x2
                       \/ a.y1 > a.y2
        IN /\ sprite_obj.raised <=> invalid
           /\ sprite_obj.raised => sprite_obj.attrs = {}
           /\ ~sprite_obj.raised =>
                 /\ sprite_obj.attrs = {"label", "top_left", "bottom_right", "width", "height"}
                 /\ sprite_obj.label = a.label
                 /\ sprite_obj.top_left = <<a.x1, a.y1>>
                 /\ sprite_obj.bottom_right = <<a.x2, a.y2>>
                 /\ sprite_obj.width = a.x2 - a.x1 + 1
                 /\ sprite_obj.height = a.y2 - a.y1 + 1
                 /\ sprite_obj.width >= 1
                 /\ sprite_obj.height >= 1

\* a one-pixel sprite was constructed (x1 = x2, y1 = y2 is the edge of validity)
C8_Witness ==
    /\ pc = "Sprite_done"
    /\ ~sprite_obj.raised
    /\ sprite_obj.width = 1
    /\ sprite_obj.height = 1
    /\ sprite_obj.label = 0

\* C9: once Pass 2 has given every provisional label an entry, the entry is
\* the minimum of the label's class in the transitive closure of the recorded
\* equivalence sets and is its own entry; when update_label returns, the keys
\* left are exactly these minima and each holds the pixels of its whole class.
C9_CanonicalIsClosureMinimum ==
    (pc \in {"merge", "label_map", "done"} /\ Labels \subseteq DOMAIN equivalence_dict) =>
        /\ \A l \in Labels :
              /\ equivalence_dict[l] = Min(Class(l))
              /\ equivalence_dict[equivalence_dict[l]] = equivalence_dict[l]
        /\ pc \in {"label_map", "done"} =>
              /\ Keys(labelled_dict) = {Min(Class(l)) : l \in Labels}
              /\ \A k \in Keys(labelled_dict) :
                    Range(Get(labelled_dict, k)) =
                        UNION {Range(Get(provisional, l)) : l \in Class(k) \cap Labels}

\* C10: at every step of Pass 1 and of the Pass 2 merge loop each foreground
\* pixel visited so far occurs exactly once in the pixel lists, and no other
\* coordinate occurs in any list.
C10_PixelPartition ==
    pc \in {"find_sprites", "pass1", "collect", "merge", "label_map", "done", "KeyError"} =>
        LET listed == Flatten(labelled_dict)
        IN \A i \in 0..(width * height - 1) :
               Occurrences(listed, PixelAt(i)) =
                   IF i < scanned /\ image[PixelAt(i)] # background_color THEN 1 ELSE 0

\* the merge loop has run to its end and has merged at least one label away
C10_Witness ==
    /\ pc = "merge"
    /\ todo = <<>>
    /\ Len(labelled_dict) < Len(provisional)

====
